---- MODULE Spec2Model ----
(***************************************************************************)
(* A model of the CHIP-8 interpreter of petergeorgas/chip-eight:           *)
(* Processor (src/src/processor.rs), the input driver's last_input         *)
(* (src/src/drivers/input.rs) and the run loop Processor::start.           *)
(*                                                                         *)
(* The fields of struct Processor are the variables ram .. delay_timer.    *)
(* status / fault say how the process stands (a Rust panic and             *)
(* std::process::exit both end it); cyc and calls are history variables    *)
(* that record what the last cycle of the run loop did.                    *)
(***************************************************************************)
EXTENDS Integers, Sequences, FiniteSets, TLC

VARIABLES
    prog_data,       \* the slice handed to load_program
    ram, display, stack, var_registers, pc, index_register, sp,
    sound_timer, delay_timer,
    display_driver,  \* what the display collaborator was handed: see NoDisplay
    status,          \* "new" | "running" | "panicked" | "exited"
    fault,           \* which panic ended the process, "" when none
    cyc,             \* history: what the last cycle sampled, fetched and invoked
    calls            \* history: the post-fetch pc of every call not yet returned from

vars == <<prog_data, ram, display, stack, var_registers, pc, index_register, sp,
          sound_timer, delay_timer, display_driver, status, fault, cyc, calls>>

----------------------------------------------------------------------------
(* Program constants *)

CHIP8_MEMORY == 4096
CHIP8_DISPLAY_WIDTH == 64
CHIP8_DISPLAY_HEIGHT == 32
CHIP8_PROGRAM_MEMORY_START == 512
CHIP8_VF_INDEX == 15
CHIP8_MAX_ROM_SIZE == 3584
STACK_SIZE == 16

----------------------------------------------------------------------------
(* The u8 operators of Rust the handlers use *)

RECURSIVE BitAnd(_, _)
BitAnd(a, b) ==
    IF a = 0 \/ b = 0 THEN 0
    ELSE (a % 2) * (b % 2) + 2 * BitAnd(a \div 2, b \div 2)

RECURSIVE BitOr(_, _)
BitOr(a, b) ==
    IF a = 0 THEN b
    ELSE IF b = 0 THEN a
    ELSE (IF a % 2 = 1 \/ b % 2 = 1 THEN 1 ELSE 0) + 2 * BitOr(a \div 2, b \div 2)

RECURSIVE BitXor(_, _)
BitXor(a, b) ==
    IF a = 0 THEN b
    ELSE IF b = 0 THEN a
    ELSE (((a % 2) + (b % 2)) % 2) + 2 * BitXor(a \div 2, b \div 2)

RECURSIVE Pow2(_)
Pow2(k) == IF k = 0 THEN 1 ELSE 2 * Pow2(k - 1)

\* u8 >> k and u8 << k (the bits shifted past bit 7 are lost)
Shr(a, k) == a \div Pow2(k)
Shl(a, k) == (a * Pow2(k)) % 256

\* u8::overflowing_add / overflowing_sub: the wrapped value and the overflow flag
overflowing_add(a, b) == [value |-> (a + b) % 256, overflow |-> a + b > 255]
overflowing_sub(a, b) == [value |-> (a - b + 256) % 256, overflow |-> a < b]

----------------------------------------------------------------------------
(* font::FONT_SET: the 16 glyphs of 5 bytes each *)

FONT_SET ==
    << 240, 144, 144, 144, 240,    32,  96,  32,  32, 112,
       240,  16, 240, 128, 240,   240,  16, 240,  16, 240,
       144, 144, 240,  16,  16,   240, 128, 240,  16, 240,
       240, 128, 240, 144, 240,   240,  16,  32,  64,  64,
       240, 144, 240, 144, 240,   240, 144, 240,  16, 240,
       240, 144, 240, 144, 144,   224, 144, 224, 144, 224,
       240, 128, 128, 128, 240,   224, 144, 144, 144, 224,
       240, 128, 240, 128, 240,   240, 128, 240, 128, 128 >>

----------------------------------------------------------------------------
(* Processor::new and load_program.  A processor is handled as a record m  *)
(* of the struct's fields plus fault, the panic that stopped it ("" none). *)

BlankDisplay ==
    [r \in 0..(CHIP8_DISPLAY_HEIGHT - 1) |-> [c \in 0..(CHIP8_DISPLAY_WIDTH - 1) |-> 0]]

\* The display collaborator before any snapshot: last is the snapshot it was
\* handed last (shown tells whether there was one), draws counts the
\* snapshots handed to it in the current cycle.
NoDisplay == [shown |-> FALSE, last |-> BlankDisplay, draws |-> 0]

\* The collaborator accepts a full snapshot of the framebuffer.
DisplayDriver_draw(driver, frame) ==
    [shown |-> TRUE, last |-> frame, draws |-> driver.draws + 1]

new ==
    [ ram            |-> [a \in 0..(CHIP8_MEMORY - 1) |->
                             IF a < Len(FONT_SET) THEN FONT_SET[a + 1] ELSE 0],
      sound_timer    |-> 0,
      delay_timer    |-> 0,
      stack          |-> [i \in 0..(STACK_SIZE - 1) |-> 0],
      display        |-> BlankDisplay,
      var_registers  |-> [i \in 0..15 |-> 0],
      index_register |-> 0,
      pc             |-> CHIP8_PROGRAM_MEMORY_START,
      sp             |-> 0,
      display_driver |-> NoDisplay,
      fault          |-> "" ]

\* Mutant of load_program: the size check off by one, the byte that does not
\* fit dropped.
load_program_one_too_many(m, data) ==
    LET fits(i) == CHIP8_PROGRAM_MEMORY_START + i <= CHIP8_MEMORY
        written == [a \in 0..(CHIP8_MEMORY - 1) |->
                       IF /\ a >= CHIP8_PROGRAM_MEMORY_START
                          /\ a - CHIP8_PROGRAM_MEMORY_START < Len(data)
                       THEN data[a - CHIP8_PROGRAM_MEMORY_START + 1]
                       ELSE m.ram[a]]
    IN  [m EXCEPT !.ram = written,
                  !.fault = IF \A i \in 0..(Len(data) - 1) : fits(i)
                            THEN "" ELSE "program_too_large"]

\* The loop writes byte i at 0x200 + i and panics at the first address >= 4096;
\* the bytes written before the panic stay written.
load_program(m, data) ==
    LET fits(i) == CHIP8_PROGRAM_MEMORY_START + i < CHIP8_MEMORY
        written == [a \in 0..(CHIP8_MEMORY - 1) |->
                       IF /\ a >= CHIP8_PROGRAM_MEMORY_START
                          /\ a - CHIP8_PROGRAM_MEMORY_START < Len(data)
                       THEN data[a - CHIP8_PROGRAM_MEMORY_START + 1]
                       ELSE m.ram[a]]
    IN  [m EXCEPT !.ram = written,
                  !.fault = IF \A i \in 0..(Len(data) - 1) : fits(i)
                            THEN "" ELSE "program_too_large"]

----------------------------------------------------------------------------
(* The call stack *)

\* Mutants of push_addr: the pointer moved before the write, and a pointer that
\* wraps round the array instead of running off it.
push_addr_increment_first(m, address) ==
    IF m.sp + 1 >= STACK_SIZE
    THEN [m EXCEPT !.fault = "stack_overflow"]
    ELSE [m EXCEPT !.stack[m.sp + 1] = address, !.sp = m.sp + 1]

push_addr_wrapping(m, address) ==
    [m EXCEPT !.stack[m.sp % STACK_SIZE] = address, !.sp = m.sp + 1]

\* stack[sp] = address panics (index out of bounds) when sp = 16, before sp moves.
push_addr(m, address) ==
    IF m.sp >= STACK_SIZE
    THEN [m EXCEPT !.fault = "stack_overflow"]
    ELSE [m EXCEPT !.stack[m.sp] = address, !.sp = m.sp + 1]

\* sp -= 1 with sp = 0: a build with overflow checks panics there and leaves
\* sp = 0; a build without them wraps sp to usize::MAX, written -1 here (the
\* same value modulo 2^64), and panics on stack[sp].  release says which build.
pop_sp_underflow(m, release) ==
    [m EXCEPT !.sp = IF release THEN -1 ELSE 0, !.fault = "stack_underflow"]

pop_addr(m, release) ==
    IF m.sp = 0
    THEN [self |-> pop_sp_underflow(m, release), value |-> 0]
    ELSE [self |-> [m EXCEPT !.sp = m.sp - 1], value |-> m.stack[m.sp - 1]]

----------------------------------------------------------------------------
(* Fetch *)

\* Mutant of get_instruction: pc moved before the two bytes are read.
get_instruction_increment_first(m) ==
    IF m.pc + 3 >= CHIP8_MEMORY
    THEN [self |-> [m EXCEPT !.fault = "fetch_out_of_bounds"], instruction |-> -1]
    ELSE [self |-> [m EXCEPT !.pc = m.pc + 2],
          instruction |-> m.ram[m.pc + 2] * 256 + m.ram[m.pc + 3]]

\* Mutant of get_instruction: the two addresses wrapped into the memory.
get_instruction_wrapping(m) ==
    [self |-> [m EXCEPT !.pc = m.pc + 2],
     instruction |-> m.ram[m.pc % CHIP8_MEMORY] * 256 + m.ram[(m.pc + 1) % CHIP8_MEMORY]]

\* ram[pc] or ram[pc + 1] out of bounds panics before pc moves.
get_instruction(m) ==
    IF m.pc + 1 >= CHIP8_MEMORY
    THEN [self |-> [m EXCEPT !.fault = "fetch_out_of_bounds"], instruction |-> -1]
    ELSE [self |-> [m EXCEPT !.pc = m.pc + 2],
          instruction |-> m.ram[m.pc] * 256 + m.ram[m.pc + 1]]

----------------------------------------------------------------------------
(* The instruction handlers *)

instruction_jmp(m, address) == [m EXCEPT !.pc = address]

instruction_jump_with_offset(m, address) ==
    instruction_jmp(m, address + m.var_registers[0])

\* Mutant of instruction_clear_screen: the cleared framebuffer is handed to
\* the display.
instruction_clear_screen_and_show(m) ==
    LET cleared == [i \in DOMAIN m.display |-> [j \in DOMAIN m.display[i] |-> 0]]
    IN  [m EXCEPT !.display = cleared,
                  !.display_driver = DisplayDriver_draw(m.display_driver, cleared)]

instruction_clear_screen(m) ==
    [m EXCEPT !.display = [i \in DOMAIN m.display |->
                              [j \in DOMAIN m.display[i] |-> 0]]]

\* Mutants of draw_pixel: the sprite bit ORed into the pixel instead of XORed,
\* and the bits of a row laid out least significant first.
draw_pixel_or(m, row, col, i, j) ==
    LET sprite_row   == m.ram[m.index_register + i]
        bit          == BitAnd(Shr(sprite_row, j), 1)
        r            == (row + i) % 32
        c            == (col + 7 - j) % 64
        pixel_screen == m.display[r][c]
        flagged      == IF bit = 1 /\ pixel_screen = 1
                        THEN [m EXCEPT !.var_registers[CHIP8_VF_INDEX] = 1]
                        ELSE m
    IN  [flagged EXCEPT !.display[r][c] = BitOr(pixel_screen, bit)]

draw_pixel_mirrored(m, row, col, i, j) ==
    LET sprite_row   == m.ram[m.index_register + i]
        bit          == BitAnd(Shr(sprite_row, j), 1)
        r            == (row + i) % 32
        c            == (col + j) % 64
        pixel_screen == m.display[r][c]
        flagged      == IF bit = 1 /\ pixel_screen = 1
                        THEN [m EXCEPT !.var_registers[CHIP8_VF_INDEX] = 1]
                        ELSE m
    IN  [flagged EXCEPT !.display[r][c] = BitXor(pixel_screen, bit)]

\* One pass of the inner loop: bit j of sprite row i, at (row + i, col + 7 - j).
draw_pixel(m, row, col, i, j) ==
    LET sprite_row   == m.ram[m.index_register + i]
        bit          == BitAnd(Shr(sprite_row, j), 1)
        r            == (row + i) % 32
        c            == (col + 7 - j) % 64
        pixel_screen == m.display[r][c]
        flagged      == IF bit = 1 /\ pixel_screen = 1
                        THEN [m EXCEPT !.var_registers[CHIP8_VF_INDEX] = 1]
                        ELSE m
    IN  [flagged EXCEPT !.display[r][c] = BitXor(pixel_screen, bit)]

\* The inner loop, for j in 0..8, on sprite row i.
draw_row(m, row, col, i) ==
    LET b0 == draw_pixel(m, row, col, i, 0)
        b1 == draw_pixel(b0, row, col, i, 1)
        b2 == draw_pixel(b1, row, col, i, 2)
        b3 == draw_pixel(b2, row, col, i, 3)
        b4 == draw_pixel(b3, row, col, i, 4)
        b5 == draw_pixel(b4, row, col, i, 5)
        b6 == draw_pixel(b5, row, col, i, 6)
    IN  draw_pixel(b6, row, col, i, 7)

\* The outer loop from row i on; ram[index_register + i] out of bounds panics
\* with the rows drawn so far left in the framebuffer.
RECURSIVE draw_loop(_, _, _, _, _)
draw_loop(m, row, col, height, i) ==
    IF i >= height THEN m
    ELSE IF m.index_register + i >= CHIP8_MEMORY
    THEN [m EXCEPT !.fault = "draw_out_of_bounds"]
    ELSE draw_loop(draw_row(m, row, col, i), row, col, height, i + 1)

\* Mutant of instruction_draw_display: VF is not cleared before the loop.
instruction_draw_display_keep_flag(m, vx, vy, height) ==
    LET row == m.var_registers[vy]
        col == m.var_registers[vx]
        drawn == draw_loop(m, row, col, height, 0)
    IN  IF drawn.fault # "" THEN drawn
        ELSE [drawn EXCEPT !.display_driver =
                               DisplayDriver_draw(drawn.display_driver, drawn.display)]

\* After the loop, self.display_driver.draw(&self.display); a panic in the
\* loop leaves before it.
instruction_draw_display(m, vx, vy, height) ==
    LET row   == m.var_registers[vy]
        col   == m.var_registers[vx]
        m1    == [m EXCEPT !.var_registers[CHIP8_VF_INDEX] = 0]
        drawn == draw_loop(m1, row, col, height, 0)
    IN  IF drawn.fault # "" THEN drawn
        ELSE [drawn EXCEPT !.display_driver =
                               DisplayDriver_draw(drawn.display_driver, drawn.display)]

instruction_call_subroutine(m, address) ==
    LET pushed == push_addr(m, m.pc)
    IN  IF pushed.fault # "" THEN pushed ELSE [pushed EXCEPT !.pc = address]

instruction_return(m, release) ==
    LET popped == pop_addr(m, release)
    IN  IF popped.self.fault # "" THEN popped.self
        ELSE [popped.self EXCEPT !.pc = popped.value]

\* Mutant of instruction_set: the value stored in ram in place of var_registers.
instruction_set_in_ram(m, register, value) ==
    [m EXCEPT !.ram[register] = value]

instruction_set(m, register, value) ==
    [m EXCEPT !.var_registers[register] = value]

\* Mutant of instruction_add: the overflow of the addition is kept in VF.
instruction_add_with_carry(m, register, value) ==
    LET r == overflowing_add(m.var_registers[register], value)
    IN  [m EXCEPT !.var_registers[register] = r.value,
                  !.var_registers[CHIP8_VF_INDEX] = IF r.overflow THEN 1 ELSE 0]

instruction_add(m, register, value) ==
    [m EXCEPT !.var_registers[register] =
                  overflowing_add(m.var_registers[register], value).value]

instruction_set_index(m, value) == [m EXCEPT !.index_register = value]

instruction_skip_equal(m, register, value) ==
    IF m.var_registers[register] = value THEN [m EXCEPT !.pc = m.pc + 2] ELSE m

instruction_skip_not_equal(m, register, value) ==
    IF m.var_registers[register] # value THEN [m EXCEPT !.pc = m.pc + 2] ELSE m

instruction_skip_key(m, register, keycode) ==
    IF m.var_registers[register] = keycode THEN [m EXCEPT !.pc = m.pc + 2] ELSE m

instruction_skip_not_key(m, register, keycode) ==
    IF m.var_registers[register] # keycode THEN [m EXCEPT !.pc = m.pc + 2] ELSE m

instruction_skip_register_equal(m, vx_register, vy_register) ==
    IF m.var_registers[vx_register] = m.var_registers[vy_register]
    THEN [m EXCEPT !.pc = m.pc + 2] ELSE m

instruction_skip_register_not_equal(m, vx_register, vy_register) ==
    IF m.var_registers[vx_register] # m.var_registers[vy_register]
    THEN [m EXCEPT !.pc = m.pc + 2] ELSE m

instruction_random(m, vx_register, value, random_value) ==
    [m EXCEPT !.var_registers[vx_register] = BitAnd(random_value, value)]

instruction_alu_set(m, vx_register, vy_register) ==
    [m EXCEPT !.var_registers[vx_register] = m.var_registers[vy_register]]

\* Mutant of instruction_alu_or: VF is reset, as the COSMAC VIP did.
instruction_alu_or_reset_flag(m, vx_register, vy_register) ==
    [m EXCEPT !.var_registers[vx_register] =
                  BitOr(m.var_registers[vx_register], m.var_registers[vy_register]),
              !.var_registers[CHIP8_VF_INDEX] = 0]

instruction_alu_or(m, vx_register, vy_register) ==
    [m EXCEPT !.var_registers[vx_register] =
                  BitOr(m.var_registers[vx_register], m.var_registers[vy_register])]

instruction_alu_and(m, vx_register, vy_register) ==
    [m EXCEPT !.var_registers[vx_register] =
                  BitAnd(m.var_registers[vx_register], m.var_registers[vy_register])]

instruction_alu_xor(m, vx_register, vy_register) ==
    [m EXCEPT !.var_registers[vx_register] =
                  BitXor(m.var_registers[vx_register], m.var_registers[vy_register])]

\* Mutant of instruction_alu_add: the flag is set on overflow and never cleared.
instruction_alu_add_sticky_flag(m, vx_register, vy_register) ==
    LET r  == overflowing_add(m.var_registers[vx_register], m.var_registers[vy_register])
        m1 == [m EXCEPT !.var_registers[vx_register] = r.value]
    IN  IF r.overflow THEN [m1 EXCEPT !.var_registers[CHIP8_VF_INDEX] = 1] ELSE m1

\* The sum is stored first and VF second, so with vx_register = 0xF the flag
\* is what the register keeps.
instruction_alu_add(m, vx_register, vy_register) ==
    LET r  == overflowing_add(m.var_registers[vx_register], m.var_registers[vy_register])
        m1 == [m EXCEPT !.var_registers[vx_register] = r.value]
    IN  [m1 EXCEPT !.var_registers[CHIP8_VF_INDEX] = IF r.overflow THEN 1 ELSE 0]

\* VF := 1 when vx > vy, then the difference is stored, then VF := 0 on
\* underflow; with vx = vy neither assignment to VF runs.
instruction_alu_subtract(m, vx_register, vy_register) ==
    LET vx_value == m.var_registers[vx_register]
        vy_value == m.var_registers[vy_register]
        m1 == IF vx_value > vy_value
              THEN [m EXCEPT !.var_registers[CHIP8_VF_INDEX] = 1] ELSE m
        r  == overflowing_sub(vx_value, vy_value)
        m2 == [m1 EXCEPT !.var_registers[vx_register] = r.value]
    IN  IF r.overflow THEN [m2 EXCEPT !.var_registers[CHIP8_VF_INDEX] = 0] ELSE m2

instruction_alu_shift(m, vx_register, vy_register, left_shift) ==
    LET m1       == [m EXCEPT !.var_registers[vx_register] = m.var_registers[vy_register]]
        copied   == m1.var_registers[vx_register]
        vf_value == IF left_shift THEN BitAnd(copied, 128) ELSE BitAnd(copied, 1)
        vx_value == IF left_shift THEN Shl(copied, 1) ELSE Shr(copied, 1)
        m2       == [m1 EXCEPT !.var_registers[CHIP8_VF_INDEX] = vf_value]
    IN  [m2 EXCEPT !.var_registers[vx_register] = vx_value]

----------------------------------------------------------------------------
(* Decode and dispatch *)

\* Option<u8>
None == [some |-> FALSE, value |-> 0]
Some(v) == [some |-> TRUE, value |-> v]

nibbles(instruction) ==
    << instruction \div 4096, (instruction \div 256) % 16,
       (instruction \div 16) % 16, instruction % 16 >>

\* Mutant of match_arm: the arms of 5xy0 and 9xy0 take any last nibble.
match_arm_loose(nib) ==
    CASE nib[1] = 0 /\ nib[2] = 0 /\ nib[3] = 14 /\ nib[4] = 0 -> "instruction_clear_screen"
      [] nib[1] = 0 /\ nib[2] = 0 /\ nib[3] = 14 /\ nib[4] = 14 -> "instruction_return"
      [] nib[1] = 6 -> "instruction_set"
      [] nib[1] = 7 -> "instruction_add"
      [] nib[1] = 1 -> "instruction_jmp"
      [] nib[1] = 2 -> "instruction_call_subroutine"
      [] nib[1] = 10 -> "instruction_set_index"
      [] nib[1] = 11 -> "instruction_jump_with_offset"
      [] nib[1] = 12 -> "instruction_random"
      [] nib[1] = 13 -> "instruction_draw_display"
      [] nib[1] = 3 -> "instruction_skip_equal"
      [] nib[1] = 14 /\ nib[3] = 9 /\ nib[4] = 14 -> "instruction_skip_key"
      [] nib[1] = 14 /\ nib[3] = 10 /\ nib[4] = 1 -> "instruction_skip_not_key"
      [] nib[1] = 4 -> "instruction_skip_not_equal"
      [] nib[1] = 5 -> "instruction_skip_register_equal"
      [] nib[1] = 9 -> "instruction_skip_register_not_equal"
      [] nib[1] = 8 /\ nib[4] = 0 -> "instruction_alu_set"
      [] nib[1] = 8 /\ nib[4] = 1 -> "instruction_alu_or"
      [] nib[1] = 8 /\ nib[4] = 2 -> "instruction_alu_and"
      [] nib[1] = 8 /\ nib[4] = 3 -> "instruction_alu_xor"
      [] nib[1] = 8 /\ nib[4] = 4 -> "instruction_alu_add"
      [] nib[1] = 8 /\ nib[4] = 5 -> "instruction_alu_subtract"
      [] nib[1] = 8 /\ nib[4] = 7 -> "instruction_alu_subtract_swapped"
      [] nib[1] = 8 /\ nib[4] = 6 -> "instruction_alu_shift_right"
      [] nib[1] = 8 /\ nib[4] = 14 -> "instruction_alu_shift_left"
      [] OTHER -> "not_supported"

\* Mutant of match_arm: the arm of 00E0 takes any two middle nibbles.
match_arm_clear_any(nib) ==
    CASE nib[1] = 0 /\ nib[4] = 0 -> "instruction_clear_screen"
      [] nib[1] = 0 /\ nib[2] = 0 /\ nib[3] = 14 /\ nib[4] = 14 -> "instruction_return"
      [] nib[1] = 6 -> "instruction_set"
      [] nib[1] = 7 -> "instruction_add"
      [] nib[1] = 1 -> "instruction_jmp"
      [] nib[1] = 2 -> "instruction_call_subroutine"
      [] nib[1] = 10 -> "instruction_set_index"
      [] nib[1] = 11 -> "instruction_jump_with_offset"
      [] nib[1] = 12 -> "instruction_random"
      [] nib[1] = 13 -> "instruction_draw_display"
      [] nib[1] = 3 -> "instruction_skip_equal"
      [] nib[1] = 14 /\ nib[3] = 9 /\ nib[4] = 14 -> "instruction_skip_key"
      [] nib[1] = 14 /\ nib[3] = 10 /\ nib[4] = 1 -> "instruction_skip_not_key"
      [] nib[1] = 4 -> "instruction_skip_not_equal"
      [] nib[1] = 5 /\ nib[4] = 0 -> "instruction_skip_register_equal"
      [] nib[1] = 9 /\ nib[4] = 0 -> "instruction_skip_register_not_equal"
      [] nib[1] = 8 /\ nib[4] = 0 -> "instruction_alu_set"
      [] nib[1] = 8 /\ nib[4] = 1 -> "instruction_alu_or"
      [] nib[1] = 8 /\ nib[4] = 2 -> "instruction_alu_and"
      [] nib[1] = 8 /\ nib[4] = 3 -> "instruction_alu_xor"
      [] nib[1] = 8 /\ nib[4] = 4 -> "instruction_alu_add"
      [] nib[1] = 8 /\ nib[4] = 5 -> "instruction_alu_subtract"
      [] nib[1] = 8 /\ nib[4] = 7 -> "instruction_alu_subtract_swapped"
      [] nib[1] = 8 /\ nib[4] = 6 -> "instruction_alu_shift_right"
      [] nib[1] = 8 /\ nib[4] = 14 -> "instruction_alu_shift_left"
      [] OTHER -> "not_supported"

\* The arm of the match that takes the nibble tuple (the arms do not overlap).
match_arm(nib) ==
    CASE nib[1] = 0 /\ nib[2] = 0 /\ nib[3] = 14 /\ nib[4] = 0 -> "instruction_clear_screen"
      [] nib[1] = 0 /\ nib[2] = 0 /\ nib[3] = 14 /\ nib[4] = 14 -> "instruction_return"
      [] nib[1] = 6 -> "instruction_set"
      [] nib[1] = 7 -> "instruction_add"
      [] nib[1] = 1 -> "instruction_jmp"
      [] nib[1] = 2 -> "instruction_call_subroutine"
      [] nib[1] = 10 -> "instruction_set_index"
      [] nib[1] = 11 -> "instruction_jump_with_offset"
      [] nib[1] = 12 -> "instruction_random"
      [] nib[1] = 13 -> "instruction_draw_display"
      [] nib[1] = 3 -> "instruction_skip_equal"
      [] nib[1] = 14 /\ nib[3] = 9 /\ nib[4] = 14 -> "instruction_skip_key"
      [] nib[1] = 14 /\ nib[3] = 10 /\ nib[4] = 1 -> "instruction_skip_not_key"
      [] nib[1] = 4 -> "instruction_skip_not_equal"
      [] nib[1] = 5 /\ nib[4] = 0 -> "instruction_skip_register_equal"
      [] nib[1] = 9 /\ nib[4] = 0 -> "instruction_skip_register_not_equal"
      [] nib[1] = 8 /\ nib[4] = 0 -> "instruction_alu_set"
      [] nib[1] = 8 /\ nib[4] = 1 -> "instruction_alu_or"
      [] nib[1] = 8 /\ nib[4] = 2 -> "instruction_alu_and"
      [] nib[1] = 8 /\ nib[4] = 3 -> "instruction_alu_xor"
      [] nib[1] = 8 /\ nib[4] = 4 -> "instruction_alu_add"
      [] nib[1] = 8 /\ nib[4] = 5 -> "instruction_alu_subtract"
      [] nib[1] = 8 /\ nib[4] = 7 -> "instruction_alu_subtract_swapped"
      [] nib[1] = 8 /\ nib[4] = 6 -> "instruction_alu_shift_right"
      [] nib[1] = 8 /\ nib[4] = 14 -> "instruction_alu_shift_left"
      [] OTHER -> "not_supported"

\* Mutant of key_arm: keycode.unwrap_or(0) in place of keycode.unwrap().
key_arm_unwrap_or(m, x, keycode, negated) ==
    IF negated
    THEN [self |-> instruction_skip_not_key(m, x, keycode.value),
          invoked |-> "instruction_skip_not_key"]
    ELSE [self |-> instruction_skip_key(m, x, keycode.value),
          invoked |-> "instruction_skip_key"]

\* keycode.unwrap() is an argument of the call: with None it panics before the
\* handler is entered.  invoked names the handler that ran, "" when none did.
key_arm(m, x, keycode, negated) ==
    IF ~keycode.some
    THEN [self |-> [m EXCEPT !.fault = "unwrap_none_keycode"], invoked |-> ""]
    ELSE IF negated
    THEN [self |-> instruction_skip_not_key(m, x, keycode.value),
          invoked |-> "instruction_skip_not_key"]
    ELSE [self |-> instruction_skip_key(m, x, keycode.value),
          invoked |-> "instruction_skip_key"]

decode_and_execute_instruction(m, instruction, keycode, random_value, release) ==
    LET nib == nibbles(instruction)
        nnn == instruction % 4096
        nn  == instruction % 256
        x   == nib[2]
        y   == nib[3]
        n   == nib[4]
        arm == match_arm(nib)
        ran(r, name) == [self |-> r, invoked |-> name]
    IN  CASE arm = "instruction_clear_screen" -> ran(instruction_clear_screen(m), arm)
          [] arm = "instruction_return" -> ran(instruction_return(m, release), arm)
          [] arm = "instruction_set" -> ran(instruction_set(m, x, nn), arm)
          [] arm = "instruction_add" -> ran(instruction_add(m, x, nn), arm)
          [] arm = "instruction_jmp" -> ran(instruction_jmp(m, nnn), arm)
          [] arm = "instruction_call_subroutine" ->
                 ran(instruction_call_subroutine(m, nnn), arm)
          [] arm = "instruction_set_index" -> ran(instruction_set_index(m, nnn), arm)
          [] arm = "instruction_jump_with_offset" ->
                 ran(instruction_jump_with_offset(m, nnn), arm)
          [] arm = "instruction_random" ->
                 ran(instruction_random(m, x, nn, random_value), arm)
          [] arm = "instruction_draw_display" ->
                 ran(instruction_draw_display(m, x, y, n), arm)
          [] arm = "instruction_skip_equal" -> ran(instruction_skip_equal(m, x, nn), arm)
          [] arm = "instruction_skip_key" -> key_arm(m, x, keycode, FALSE)
          [] arm = "instruction_skip_not_key" -> key_arm(m, x, keycode, TRUE)
          [] arm = "instruction_skip_not_equal" ->
                 ran(instruction_skip_not_equal(m, x, nn), arm)
          [] arm = "instruction_skip_register_equal" ->
                 ran(instruction_skip_register_equal(m, x, y), arm)
          [] arm = "instruction_skip_register_not_equal" ->
                 ran(instruction_skip_register_not_equal(m, x, y), arm)
          [] arm = "instruction_alu_set" -> ran(instruction_alu_set(m, x, y), arm)
          [] arm = "instruction_alu_or" -> ran(instruction_alu_or(m, x, y), arm)
          [] arm = "instruction_alu_and" -> ran(instruction_alu_and(m, x, y), arm)
          [] arm = "instruction_alu_xor" -> ran(instruction_alu_xor(m, x, y), arm)
          [] arm = "instruction_alu_add" -> ran(instruction_alu_add(m, x, y), arm)
          [] arm = "instruction_alu_subtract" ->
                 ran(instruction_alu_subtract(m, x, y), arm)
          [] arm = "instruction_alu_subtract_swapped" ->
                 ran(instruction_alu_subtract(m, y, x), arm)
          [] arm = "instruction_alu_shift_right" ->
                 ran(instruction_alu_shift(m, x, y, FALSE), arm)
          [] arm = "instruction_alu_shift_left" ->
                 ran(instruction_alu_shift(m, x, y, TRUE), arm)
          [] OTHER -> ran(m, "not_supported")

----------------------------------------------------------------------------
(* InputDriver::last_input *)

Quit == [type |-> "Quit", scancode |-> ""]
KeyDown(sc) == [type |-> "KeyDown", scancode |-> sc]
KeyUp(sc) == [type |-> "KeyUp", scancode |-> sc]

convert_std_to_chip8_code(code) ==
    CASE code = "Num1" -> Some(1) [] code = "Num2" -> Some(2)
      [] code = "Num3" -> Some(3) [] code = "Num4" -> Some(12)
      [] code = "Q" -> Some(4)    [] code = "W" -> Some(5)
      [] code = "E" -> Some(6)    [] code = "R" -> Some(13)
      [] code = "A" -> Some(7)    [] code = "S" -> Some(8)
      [] code = "D" -> Some(9)    [] code = "F" -> Some(14)
      [] code = "Z" -> Some(10)   [] code = "X" -> Some(0)
      [] code = "C" -> Some(11)   [] code = "V" -> Some(15)
      [] OTHER -> None

\* What as_user_event_type::<Scancode>() may hand back for a key-down event.
\* It is a call into the sdl2 crate and the source does not fix its result:
\* both a missing value (the unwrap panics) and the event's scancode are kept.
as_user_event_type(event) ==
    {[some |-> FALSE, value |-> ""], [some |-> TRUE, value |-> event.scancode]}

\* The outcomes last_input can have on a batch of pending events: only the
\* last event of the batch is looked at.
last_input(events) ==
    IF Len(events) = 0 THEN {[kind |-> "return", keycode |-> None]}
    ELSE LET last_event == events[Len(events)]
         IN  IF \/ last_event.type = "Quit"
                \/ last_event.type = "KeyDown" /\ last_event.scancode = "Escape"
             THEN {[kind |-> "exit", keycode |-> None]}
             ELSE IF last_event.type = "KeyDown"
             THEN {IF last_key.some
                   THEN [kind |-> "return",
                         keycode |-> convert_std_to_chip8_code(last_key.value)]
                   ELSE [kind |-> "panic", keycode |-> None]
                   : last_key \in as_user_event_type(last_event)}
             ELSE {[kind |-> "return", keycode |-> None]}

----------------------------------------------------------------------------
(* The inputs: program images, pending events, random bytes *)

Word(a, b, c, d) == a * 4096 + b * 256 + c * 16 + d
Addr(k) == CHIP8_PROGRAM_MEMORY_START + 2 * k    \* the address of word k of an image
Halt(k) == 4096 + Addr(k)                        \* 1nnn at word k, jumping to itself

\* The bytes of a sequence of instruction words, high byte first.
Asm(words) ==
    [i \in 1..(2 * Len(words)) |->
        IF i % 2 = 1 THEN words[(i + 1) \div 2] \div 256 ELSE words[i \div 2] % 256]

\* An image followed by zero bytes up to length len (Rom::new reads a file
\* into a zeroed buffer of CHIP8_MAX_ROM_SIZE bytes).
Pad(data, len) == [i \in 1..len |-> IF i <= Len(data) THEN data[i] ELSE 0]

RegSamples == {0, 1, 15}
ByteSamples == {0, 1, 128, 255}
FlagSamples == {0, 1}

SetReg(x, v) == 6 * 4096 + x * 256 + v            \* 6xnn
RET == 238                                        \* 00EE
CLS == 224                                        \* 00E0

\* 6F vf; 6x a; 6y b; 8xyN; halt
AluWords(ops) ==
    { <<SetReg(15, vf), SetReg(x, a), SetReg(y, b), Word(8, x, y, n), Halt(4)>> :
        vf \in FlagSamples, x \in RegSamples, y \in RegSamples,
        a \in ByteSamples, b \in ByteSamples, n \in ops }

AddPrograms == AluWords({4})
SubtractPrograms == AluWords({5, 7})
ShiftPrograms == AluWords({6, 14})

\* A002 D005 2206 6F01 6x a; 6y b; 8xyN; halt: the operation runs with the
\* index register, the framebuffer and the stack in use.
BitSamples == {0, 60, 255}
BitwisePrograms ==
    { <<10 * 4096 + 2, Word(13, 0, 0, 5), 2 * 4096 + Addr(3), SetReg(15, 1),
        SetReg(x, a), SetReg(y, b), Word(8, x, y, n), Halt(7)>> :
        x \in RegSamples, y \in RegSamples, a \in {90, 255}, b \in BitSamples,
        n \in 0..3 }

\* 6F vf; 6x a; 7x nn; halt
AddImmediatePrograms ==
    { <<SetReg(15, vf), SetReg(x, a), 7 * 4096 + x * 256 + nn, Halt(3)>> :
        vf \in FlagSamples, x \in RegSamples, a \in ByteSamples, nn \in ByteSamples }

\* A chain of d nested subroutines: routine k is "7k01; call routine k+1; 00EE"
\* at word 3k (routine 0 halts instead of returning), routine d is "00EE".
CallChain(d) ==
    [i \in 1..(3 * d + 1) |->
        LET k == (i - 1) \div 3
        IN  IF i = 3 * d + 1 THEN RET
            ELSE IF i % 3 = 1 THEN Word(7, k % 16, 0, 1)
            ELSE IF i % 3 = 2 THEN 2 * 4096 + Addr(3 * (k + 1))
            ELSE IF k = 0 THEN Halt(2) ELSE RET]

CallDepths == {1, 2, 3, STACK_SIZE, STACK_SIZE + 1}

\* The chains, a return on an empty stack, a routine calling itself for ever,
\* and a call whose routine returns twice.
CallPrograms ==
    {CallChain(d) : d \in CallDepths}
        \cup { <<RET>>, <<SetReg(0, 7), RET>>, <<2 * 4096 + Addr(0)>>,
               <<2 * 4096 + Addr(2), Halt(1), RET, RET>>,
               <<2 * 4096 + Addr(2), 2 * 4096 + Addr(4), RET, Halt(3), RET>> }

\* 6x cx; 6y cy; Annn; Dxyn; Dxyn; halt
DrawSprites == { <<0, 5>>, <<0, 0>>, <<5, 15>>, <<80, 5>>, <<4094, 3>> }
ColSamples == {0, 61, 200}
RowSamples == {0, 30}
DrawPrograms ==
    { <<SetReg(x, cx), SetReg(y, cy), 10 * 4096 + sprite[1],
        Word(13, x, y, sprite[2]), Word(13, x, y, sprite[2]), Halt(5)>> :
        x \in RegSamples, y \in RegSamples, cx \in ColSamples, cy \in RowSamples,
        sprite \in DrawSprites }

\* 00E0 A000 D005 1200
GlyphProgram == <<CLS, 10 * 4096, Word(13, 0, 0, 5), 4096 + Addr(0)>>

\* 1nnn alone, and 60vv Bnnn
JumpTargets == {0, 80, Addr(0), Addr(1), Addr(3), 4094, 4095}
JumpPrograms ==
    { <<4096 + nnn, SetReg(1, 1), SetReg(2, 2), SetReg(3, 3), Halt(4)>> :
        nnn \in JumpTargets }
      \cup { <<SetReg(0, v), 11 * 4096 + nnn, Halt(2), Halt(3)>> :
                v \in {0, 2, 255}, nnn \in {Addr(2), Addr(3), 4094, 4095} }

\* Words no arm of the match takes, run after registers, index, stack and
\* framebuffer have all left their initial values.
UnsupportedWords ==
    { 0, Word(0, 1, 2, 3), Word(0, 0, 14, 1), Word(0, 0, 15, 14), Word(0, 1, 14, 0),
      Word(5, 0, 1, 1), Word(5, 1, 15, 15), Word(9, 0, 1, 2), Word(9, 15, 1, 15) }
      \cup { Word(8, 1, 15, n) : n \in (8..13) \cup {15} }
      \cup { Word(14, 1, 9, 15), Word(14, 1, 10, 0), Word(14, 0, 0, 0), Word(14, 1, 14, 9) }
      \cup { Word(15, 1, 0, 7), Word(15, 1, 0, 10), Word(15, 1, 1, 5), Word(15, 1, 1, 8),
             Word(15, 1, 1, 14), Word(15, 1, 2, 9), Word(15, 1, 3, 3),
             Word(15, 1, 5, 5), Word(15, 1, 6, 5), Word(15, 15, 15, 15) }
UnsupportedPrograms ==
    { <<SetReg(1, 5), SetReg(15, 1), 10 * 4096 + 2, Word(13, 1, 1, 5),
        2 * 4096 + Addr(5), w, Halt(6)>> : w \in UnsupportedWords }

\* 6x v; Ex9E or ExA1; halt; halt
KeyPrograms ==
    { <<SetReg(x, v), Word(14, x, kk[1], kk[2]), Halt(2), Halt(3)>> :
        x \in {0, 15}, v \in {1, 2}, kk \in {<<9, 14>>, <<10, 1>>} }

\* 6x a; 6y b; one of 3xnn 4xnn 5xy0 9xy0 7xnn Cxnn; halt; halt
MiscPrograms ==
    { <<SetReg(x, a), SetReg(y, b), op * 4096 + x * 256 + nn, Halt(3), Halt(4)>> :
        x \in {1, 15}, y \in {2}, a \in {1, 255}, b \in {1, 16}, nn \in {1, 32},
        op \in {3, 4, 5, 7, 9, 12} }

\* Programs that leave the memory: a jump or a call to the last bytes, zero
\* words run from 0xFF0 to the end, Bnnn around 0xFFF, a sprite read across
\* the end, a key skip.
FaultSprites == { <<4094, 2>>, <<4094, 3>>, <<4095, 0>>, <<4095, 1>>, <<4095, 2>>,
                  <<4081, 15>>, <<4082, 15>> }
FaultPrograms ==
    { <<op * 4096 + nnn>> : op \in {1, 2}, nnn \in {4080, 4093, 4094, 4095} }
      \cup { <<SetReg(0, v), 11 * 4096 + nnn, Halt(2), Halt(3)>> :
                v \in {0, 1, 2, 255}, nnn \in {Addr(2), 4093, 4094, 4095} }
      \cup { <<SetReg(1, 61), 10 * 4096 + sprite[1], Word(13, 1, 1, sprite[2]), Halt(3)>> :
                sprite \in FaultSprites }
      \cup KeyPrograms

\* One program through every arm of the match, after a glyph is drawn at
\* (5, 5): the skips are followed by 7201, the call at word 22 runs the 00EE
\* at word 24, and the framebuffer is cleared, drawn and cleared at the end.
TourProgram ==
    << SetReg(1, 5), 10 * 4096, Word(13, 1, 1, 5), Word(7, 1, 0, 1),
       Word(8, 1, 2, 0), Word(8, 1, 2, 4), Word(8, 1, 2, 5), Word(8, 1, 2, 6),
       Word(8, 1, 2, 14), Word(8, 1, 2, 7), Word(8, 1, 2, 1), Word(8, 1, 2, 2),
       Word(8, 1, 2, 3), Word(3, 1, 0, 0), Word(7, 2, 0, 1), Word(4, 1, 0, 0),
       Word(7, 2, 0, 1), Word(5, 1, 2, 0), Word(7, 2, 0, 1), Word(9, 1, 2, 0),
       Word(7, 2, 0, 1), Word(12, 1, 0, 15), 2 * 4096 + Addr(24), 4096 + Addr(25),
       RET, Word(14, 1, 9, 14), Word(7, 2, 0, 1), Word(14, 1, 10, 1),
       Word(7, 2, 0, 1), Word(15, 1, 3, 3), 11 * 4096 + Addr(31), CLS,
       Word(13, 1, 1, 5), CLS, Halt(34) >>

\* The third program reads its sprite across the end of the memory.
FramePrograms ==
    {TourProgram, GlyphProgram, <<10 * 4096 + 4094, Word(13, 1, 1, 3), Halt(2)>>} \cup UnsupportedPrograms \cup KeyPrograms
        \cup MiscPrograms \cup CallPrograms

Scancodes == {"Num1", "P", "Escape"}
Events == {Quit} \cup {KeyDown(sc) : sc \in Scancodes} \cup {KeyUp("Num1")}
MaxEvents == 2
EventBatches == UNION {[1..k -> Events] : k \in 0..MaxEvents}
InputOutcomes == UNION {last_input(events) : events \in EventBatches}

\* A quit event or an escape key-down is among the pending events.
QuitPending(events) ==
    \E i \in 1..Len(events) :
        \/ events[i].type = "Quit"
        \/ events[i].type = "KeyDown" /\ events[i].scancode = "Escape"

\* What one call of last_input can do, with what the batch it drained held.
InputSamples ==
    UNION { { [outcome |-> o, quit_pending |-> QuitPending(events)] :
                o \in last_input(events) } : events \in EventBatches }

RandomBytes == {0, 90, 255}

----------------------------------------------------------------------------
(* The state machine *)

Self ==
    [ ram |-> ram, sound_timer |-> sound_timer, delay_timer |-> delay_timer,
      stack |-> stack, display |-> display, var_registers |-> var_registers,
      index_register |-> index_register, pc |-> pc, sp |-> sp,
      display_driver |-> display_driver, fault |-> fault ]

\* The processor as a cycle finds it: no snapshot handed over in this cycle yet.
Entering == [Self EXCEPT !.display_driver.draws = 0]

\* The processor's fields become those of m; a fault in m ends the process.
Becomes(m) ==
    /\ ram' = m.ram
    /\ sound_timer' = m.sound_timer
    /\ delay_timer' = m.delay_timer
    /\ stack' = m.stack
    /\ display' = m.display
    /\ var_registers' = m.var_registers
    /\ index_register' = m.index_register
    /\ pc' = m.pc
    /\ sp' = m.sp
    /\ display_driver' = m.display_driver
    /\ fault' = m.fault
    /\ status' = IF m.fault # "" THEN "panicked" ELSE "running"

\* What a cycle leaves in the history: stage is the last step it entered.
Snapshot(m, previous) ==
    [ var_registers |-> m.var_registers, pc |-> m.pc, sp |-> m.sp,
      stack |-> m.stack, index_register |-> m.index_register,
      blank |-> m.display = BlankDisplay, instruction |-> previous ]

NoCycle ==
    [ stage |-> "", keycode |-> None, instruction |-> -1, fetch_pc |-> -1,
      invoked |-> "", pre |-> Snapshot(new, -1), quit_pending |-> FALSE ]

InitWith(programs) ==
    /\ prog_data \in programs
    /\ ram = new.ram
    /\ sound_timer = new.sound_timer
    /\ delay_timer = new.delay_timer
    /\ stack = new.stack
    /\ display = new.display
    /\ var_registers = new.var_registers
    /\ index_register = new.index_register
    /\ pc = new.pc
    /\ sp = new.sp
    /\ display_driver = new.display_driver
    /\ fault = new.fault
    /\ status = "new"
    /\ cyc = NoCycle
    /\ calls = <<>>

\* main: processor.load_program(&rom.data), then processor.start()
LoadProgram ==
    /\ status = "new"
    /\ Becomes(load_program(Self, prog_data))
    /\ UNCHANGED <<prog_data, cyc, calls>>

\* The history of unreturned calls after a cycle that fetched at fetch_pc.
CallsAfter(invoked, m, fetch_pc) ==
    IF m.fault # "" THEN calls
    ELSE IF invoked = "instruction_call_subroutine" THEN Append(calls, fetch_pc)
    ELSE IF invoked = "instruction_return" /\ Len(calls) > 0
    THEN SubSeq(calls, 1, Len(calls) - 1)
    ELSE calls

\* One iteration of the loop of start: last_input, get_instruction,
\* decode_and_execute_instruction.
Cycle ==
    /\ status = "running"
    /\ \E sample \in InputSamples :
         LET outcome == sample.outcome
             pre == Snapshot(Self, cyc.instruction)
             sampled == [NoCycle EXCEPT !.stage = "input", !.pre = pre,
                                        !.quit_pending = sample.quit_pending]
         IN
         IF outcome.kind = "exit"
         THEN /\ status' = "exited"
              /\ cyc' = sampled
              /\ display_driver' = Entering.display_driver
              /\ UNCHANGED <<prog_data, ram, display, stack, var_registers, pc,
                             index_register, sp, sound_timer, delay_timer, fault, calls>>
         ELSE IF outcome.kind = "panic"
         THEN /\ Becomes([Entering EXCEPT !.fault = "unwrap_none_scancode"])
              /\ cyc' = sampled
              /\ UNCHANGED <<prog_data, calls>>
         ELSE
         LET fetched == get_instruction(Entering)
             arm == match_arm(nibbles(fetched.instruction))
         IN
         IF fetched.self.fault # ""
         THEN /\ Becomes(fetched.self)
              /\ cyc' = [sampled EXCEPT !.stage = "fetch", !.keycode = outcome.keycode]
              /\ UNCHANGED <<prog_data, calls>>
         ELSE
         \E random_value \in (IF arm = "instruction_random" THEN RandomBytes ELSE {0}),
            release \in (IF arm = "instruction_return" THEN BOOLEAN ELSE {FALSE}) :
            LET done == decode_and_execute_instruction(
                            fetched.self, fetched.instruction, outcome.keycode,
                            random_value, release)
            IN  /\ Becomes(done.self)
                /\ cyc' = [ stage |-> "execute", keycode |-> outcome.keycode,
                            instruction |-> fetched.instruction,
                            fetch_pc |-> fetched.self.pc,
                            invoked |-> done.invoked, pre |-> pre,
                            quit_pending |-> sample.quit_pending ]
                /\ calls' = CallsAfter(done.invoked, done.self, fetched.self.pc)
                /\ UNCHANGED prog_data

Next == LoadProgram \/ Cycle

Images(words) == {Asm(w) : w \in words}

\* Images longer than the program memory by up to MaxOversize bytes, and the
\* buffer Rom::new hands over.
MaxOversize == 2
LoadSizes == {CHIP8_MAX_ROM_SIZE - 1} \cup (CHIP8_MAX_ROM_SIZE..(CHIP8_MAX_ROM_SIZE + MaxOversize))
SizedPrograms ==
    Images(KeyPrograms \cup {GlyphProgram})
      \cup { Pad(Asm(w) \o <<255>>, len) \o <<171>> : w \in {GlyphProgram, <<RET>>},
                                                     len \in {l - 1 : l \in LoadSizes} }

Programs ==
    Images(AddPrograms \cup CallPrograms \cup DrawPrograms \cup {GlyphProgram}
           \cup JumpPrograms \cup UnsupportedPrograms \cup KeyPrograms \cup MiscPrograms)

Init == InitWith(Programs)
Spec == Init /\ [][Next]_vars

SpecCalls == InitWith(Images(CallPrograms)) /\ [][Next]_vars
SpecAdd == InitWith(Images(AddPrograms)) /\ [][Next]_vars
SpecSubtract == InitWith(Images(SubtractPrograms)) /\ [][Next]_vars
SpecDraw == InitWith(Images(DrawPrograms \cup {GlyphProgram})) /\ [][Next]_vars
SpecJump == InitWith(Images(JumpPrograms)) /\ [][Next]_vars
SpecLoad == InitWith(SizedPrograms) /\ [][Next]_vars
SpecUnsupported == InitWith(Images(UnsupportedPrograms)) /\ [][Next]_vars
SpecKeys == InitWith(Images(KeyPrograms \cup MiscPrograms)) /\ [][Next]_vars
SpecShift == InitWith(Images(ShiftPrograms)) /\ [][Next]_vars
SpecBitwise == InitWith(Images(BitwisePrograms)) /\ [][Next]_vars
SpecAddImmediate == InitWith(Images(AddImmediatePrograms)) /\ [][Next]_vars
SpecFrame == InitWith(Images(FramePrograms)) /\ [][Next]_vars
SpecFaults == InitWith(Images(FaultPrograms)) /\ [][Next]_vars

----------------------------------------------------------------------------
(* Properties *)

Arm(instruction) == match_arm(nibbles(instruction))
Executed == cyc.stage = "execute"
X(instruction) == nibbles(instruction)[2]
Y(instruction) == nibbles(instruction)[3]
N(instruction) == nibbles(instruction)[4]
NNN(instruction) == instruction % 4096
VF == var_registers[CHIP8_VF_INDEX]

\* C1: every return that does not panic sets pc to the pc that held right
\* after the matching call was fetched (the address of the call plus 2):
\* calls holds those values for the calls not yet returned from, innermost
\* last, whatever ran between a call and its return.
C1_ReturnResumesAfterCall ==
    [][ ( /\ status = "running"
          /\ status' = "running"
          /\ cyc'.stage = "execute"
          /\ cyc'.invoked = "instruction_return" )
        => ( /\ Len(calls) > 0
             /\ pc' = calls[Len(calls)]
             /\ Len(calls) <= STACK_SIZE ) ]_vars

\* The return out of the 16th nested routine, back into routine 15.
C1_Witness ==
    /\ status = "running"
    /\ Executed
    /\ cyc.invoked = "instruction_return"
    /\ Len(calls) = STACK_SIZE - 1
    /\ pc = Addr(3 * (STACK_SIZE - 1) + 2)

\* C2: while the process has not panicked sp is in 0..16; a call with sp = 16
\* and a return with sp = 0 end in a panic, with no stack slot written and
\* with no later cycle.
C2_StackPointerBounded ==
    /\ status # "panicked" => sp \in 0..STACK_SIZE
    /\ ( /\ Executed
         /\ Arm(cyc.instruction) = "instruction_call_subroutine"
         /\ cyc.pre.sp = STACK_SIZE )
       => status = "panicked" /\ fault = "stack_overflow" /\ stack = cyc.pre.stack
    /\ ( /\ Executed
         /\ Arm(cyc.instruction) = "instruction_return"
         /\ cyc.pre.sp = 0 )
       => status = "panicked" /\ fault = "stack_underflow" /\ stack = cyc.pre.stack

\* The 17th nested call.
C2_Witness ==
    /\ status = "panicked"
    /\ fault = "stack_overflow"
    /\ cyc.pre.sp = STACK_SIZE
    /\ Len(calls) = STACK_SIZE

\* The operands of the ALU instruction the last cycle executed, as they were
\* before it.
PreVx == cyc.pre.var_registers[X(cyc.instruction)]
PreVy == cyc.pre.var_registers[Y(cyc.instruction)]
AddDone == Executed /\ cyc.invoked = "instruction_alu_add"

\* C3 as stated: for all x and y, 0xF included, after 8xy4 Vx holds
\* (a + b) mod 256 and VF holds 1 when a + b >= 256 and 0 otherwise.
C3_AddAsStated ==
    AddDone =>
        /\ var_registers[X(cyc.instruction)] = (PreVx + PreVy) % 256
        /\ VF = IF PreVx + PreVy >= 256 THEN 1 ELSE 0

\* C3 as amended: for all x and y, after 8xy4 VF holds 1 when a + b >= 256 and
\* 0 otherwise, and for x other than 0xF Vx holds (a + b) mod 256 (with
\* x = 0xF the register is VF and keeps the flag, not the sum).
C3_AddSumAndCarry ==
    AddDone =>
        /\ VF = IF PreVx + PreVy >= 256 THEN 1 ELSE 0
        /\ X(cyc.instruction) # CHIP8_VF_INDEX =>
               var_registers[X(cyc.instruction)] = (PreVx + PreVy) % 256

\* 8F14 with a sum that is neither 0 nor 1 modulo 256 and no carry.
C3_Witness ==
    /\ AddDone
    /\ X(cyc.instruction) = CHIP8_VF_INDEX
    /\ Y(cyc.instruction) = 1
    /\ (PreVx + PreVy) % 256 = 129
    /\ VF = 0

\* The subtraction the last cycle executed: 8xy5 takes Vy from Vx, 8xy7 is
\* dispatched with the registers swapped.  The result register is taken to be
\* the one the handler writes, the register of the minuend.
SubtractDone ==
    /\ Executed
    /\ cyc.invoked \in {"instruction_alu_subtract", "instruction_alu_subtract_swapped"}
Minuend ==
    IF cyc.invoked = "instruction_alu_subtract"
    THEN X(cyc.instruction) ELSE Y(cyc.instruction)
Subtrahend ==
    IF cyc.invoked = "instruction_alu_subtract"
    THEN Y(cyc.instruction) ELSE X(cyc.instruction)

\* C4: for all a (minuend) and b (subtrahend) and every prior VF, after 8xy5 or
\* 8xy7 on registers other than VF the result register holds (a - b) mod 256
\* and VF is 1 when a >= b and 0 when a < b; with a = b, VF is 1.
C4_SubtractFlag ==
    ( /\ SubtractDone
      /\ Minuend # CHIP8_VF_INDEX
      /\ Subtrahend # CHIP8_VF_INDEX )
    => LET a == cyc.pre.var_registers[Minuend]
           b == cyc.pre.var_registers[Subtrahend]
       IN  /\ var_registers[Minuend] = (a - b + 256) % 256
           /\ VF = IF a >= b THEN 1 ELSE 0

\* The sprite a Dxyn reads with the index register as it stands has a bit set.
SpriteHasBit(instruction) ==
    \E i \in 0..(N(instruction) - 1) :
        index_register + i < CHIP8_MEMORY /\ ram[index_register + i] # 0

\* The last cycle drew, without panicking, on a framebuffer that was clear,
\* a sprite with a bit set.
FirstDrawDone ==
    /\ status = "running"
    /\ Executed
    /\ cyc.invoked = "instruction_draw_display"
    /\ cyc.pre.blank
    /\ SpriteHasBit(cyc.instruction)

\* This step executes the instruction word the last cycle executed.
SameAgain ==
    /\ cyc'.stage = "execute"
    /\ cyc'.instruction = cyc.instruction
    /\ cyc'.pre.instruction = cyc.instruction

\* C5 as stated: from a clear framebuffer, the same Dxyn twice in a row (a bit
\* set in the sprite) gives VF = 0 after the first draw, VF = 1 after the
\* second, and the framebuffer clear again, for every x, y and coordinate.
C5_DrawTwiceAsStated ==
    [][ (FirstDrawDone /\ SameAgain)
        => (VF = 0 /\ VF' = 1 /\ display' = BlankDisplay) ]_vars

\* C5 as amended: the same, for x and y other than 0xF or with VF = 0 before
\* the first draw (the first draw clears VF, so a coordinate read from VF is
\* not the same for the second draw).
C5_DrawTwice ==
    [][ ( /\ FirstDrawDone
          /\ SameAgain
          /\ \/ X(cyc.instruction) # CHIP8_VF_INDEX /\ Y(cyc.instruction) # CHIP8_VF_INDEX
             \/ cyc.pre.var_registers[CHIP8_VF_INDEX] = 0 )
        => (VF = 0 /\ VF' = 1 /\ display' = BlankDisplay) ]_vars

\* After the second D015 of a glyph drawn at column 200, row 30.
C5_Witness ==
    /\ status = "running"
    /\ Executed
    /\ cyc.invoked = "instruction_draw_display"
    /\ cyc.pre.instruction = cyc.instruction
    /\ SpriteHasBit(cyc.instruction)
    /\ X(cyc.instruction) = 0 /\ Y(cyc.instruction) = 1
    /\ var_registers[0] = 200 /\ var_registers[1] = 30
    /\ ~cyc.pre.blank
    /\ display = BlankDisplay
    /\ VF = 1

\* The image 00E0 A000 D005 1200 is what sits at 0x200.
RunsGlyphProgram ==
    \A i \in 1..(2 * Len(GlyphProgram)) :
        ram[CHIP8_PROGRAM_MEMORY_START + i - 1] = Asm(GlyphProgram)[i]

\* Rows 0..4, columns 0..7 show the glyph stored at memory[0..4], most
\* significant bit leftmost, and every other pixel is 0.
ShowsGlyphZero ==
    \A r \in 0..(CHIP8_DISPLAY_HEIGHT - 1), c \in 0..(CHIP8_DISPLAY_WIDTH - 1) :
        display[r][c] = IF r <= 4 /\ c <= 7 THEN (ram[r] \div Pow2(7 - c)) % 2 ELSE 0

\* C8: running 00E0 A000 D005 1200 from the initial state, after the draw and
\* after the jump of every pass of the loop the framebuffer shows the glyph
\* of '0' in its top left corner, nothing else, and VF = 0.
C8_GlyphProgram ==
    ( /\ RunsGlyphProgram
      /\ status = "running"
      /\ Executed
      /\ cyc.instruction \in {GlyphProgram[3], GlyphProgram[4]} )
    => (ShowsGlyphZero /\ VF = 0)

\* The end of a pass: the jump back has run and the glyph is on the screen.
C8_Witness ==
    /\ RunsGlyphProgram
    /\ status = "running"
    /\ Executed
    /\ cyc.instruction = GlyphProgram[4]
    /\ cyc.pre.instruction = GlyphProgram[3]
    /\ pc = CHIP8_PROGRAM_MEMORY_START
    /\ display[0][0] = 1 /\ display[1][1] = 0 /\ display[4][3] = 1
    /\ ~cyc.pre.blank

\* The last cycle executed 1nnn, and this step is a cycle that gets as far as
\* its fetch.
JumpDone == status = "running" /\ Executed /\ cyc.invoked = "instruction_jmp"
         /\ Arm(cyc.instruction) = "instruction_jmp"
FetchesNext == cyc'.stage \in {"fetch", "execute"}
FetchedAt(nnn) ==
    /\ cyc'.stage = "execute"
    /\ cyc'.instruction = ram[nnn] * 256 + ram[nnn + 1]
    /\ cyc'.fetch_pc = nnn + 2

\* C6 as stated: after 1nnn, pc = nnn, and the next fetch reads memory[nnn]
\* and memory[nnn + 1] as the instruction and leaves pc = nnn + 2.
C6_JumpAsStated ==
    [][ (JumpDone /\ FetchesNext)
        => (pc = NNN(cyc.instruction) /\ FetchedAt(NNN(cyc.instruction))) ]_vars

\* C6 as amended: after 1nnn, pc = nnn, and for nnn <= 0xFFE the next fetch
\* reads memory[nnn] and memory[nnn + 1] and leaves pc = nnn + 2 (with
\* nnn = 0xFFF there is no memory[nnn + 1] and the fetch panics).
C6_JumpThenFetch ==
    [][ (JumpDone /\ FetchesNext)
        => ( /\ pc = NNN(cyc.instruction)
             /\ NNN(cyc.instruction) <= CHIP8_MEMORY - 2
                    => FetchedAt(NNN(cyc.instruction)) ) ]_vars

\* The fetch after 1206 at 0x200: the word at 0x206 was read and pc is 0x208.
C6_Witness ==
    /\ Executed
    /\ cyc.pre.instruction = 4096 + Addr(3)
    /\ cyc.pre.pc = Addr(3)
    /\ cyc.instruction = SetReg(3, 3)
    /\ cyc.fetch_pc = Addr(4)
    /\ var_registers[3] = 3 /\ var_registers[1] = 0

\* The load is over and no cycle has run yet.
JustLoaded == status # "new" /\ cyc.stage = ""

\* C7: load_program succeeds on at most 3584 bytes, with byte i at
\* memory[0x200 + i] and memory[0x000..0x1FF] as it was; on 3585 bytes or
\* more it panics and no cycle ever runs.
C7_LoadProgram ==
    /\ (JustLoaded /\ Len(prog_data) <= CHIP8_MAX_ROM_SIZE) =>
          /\ status = "running"
          /\ \A i \in 0..(Len(prog_data) - 1) :
                 ram[CHIP8_PROGRAM_MEMORY_START + i] = prog_data[i + 1]
          /\ \A a \in 0..(CHIP8_PROGRAM_MEMORY_START - 1) : ram[a] = new.ram[a]
    /\ (status # "new" /\ Len(prog_data) > CHIP8_MAX_ROM_SIZE) =>
          /\ status = "panicked"
          /\ fault = "program_too_large"
          /\ cyc = NoCycle

\* 3585 bytes handed to load_program.
C7_Witness ==
    /\ Len(prog_data) = CHIP8_MAX_ROM_SIZE + 1
    /\ status = "panicked"
    /\ fault = "program_too_large"

\* The instruction words that match no implemented opcode pattern: 0nnn other
\* than 00E0 and 00EE, 5xyN and 9xyN with N # 0, 8xyN with N in 8..D or F,
\* ExNN other than Ex9E and ExA1, every Fxnn.
NoOpcode(w) ==
    LET nib == nibbles(w)
    IN  \/ nib[1] = 0 /\ w \notin {CLS, RET}
        \/ nib[1] \in {5, 9} /\ nib[4] # 0
        \/ nib[1] = 8 /\ nib[4] \in (8..13) \cup {15}
        \/ nib[1] = 14 /\ w % 256 \notin {158, 161}
        \/ nib[1] = 15

\* C9: a cycle that fetches a word matching no implemented opcode does not
\* panic and changes nothing but pc, which the fetch advanced by 2.
C9_UnsupportedIsNoOp ==
    [][ ( /\ status = "running"
          /\ cyc'.stage = "execute"
          /\ NoOpcode(cyc'.instruction) )
        => ( /\ status' = "running"
             /\ pc' = pc + 2
             /\ var_registers' = var_registers
             /\ index_register' = index_register
             /\ stack' = stack
             /\ sp' = sp
             /\ sound_timer' = sound_timer
             /\ delay_timer' = delay_timer
             /\ ram' = ram
             /\ display' = display ) ]_vars

\* Fx33 fetched with registers, index, stack and framebuffer all in use.
C9_Witness ==
    /\ status = "running"
    /\ Executed
    /\ cyc.instruction = Word(15, 1, 3, 3)
    /\ NoOpcode(cyc.instruction)
    /\ cyc.invoked = "not_supported"
    /\ sp = 1 /\ index_register = 2 /\ var_registers[1] = 5
    /\ display # BlankDisplay
    /\ pc = cyc.pre.pc + 2

KeySkipWord(w) == nibbles(w)[1] = 14 /\ w % 256 \in {158, 161}

\* C10: a cycle whose input sampling returned None and which fetches Ex9E or
\* ExA1 invokes neither key comparison; pc stays where the fetch left it.
C10_NoKeyNoComparison ==
    ( /\ cyc.stage = "execute"
      /\ ~cyc.keycode.some
      /\ KeySkipWord(cyc.instruction) )
    => ( /\ cyc.invoked \notin {"instruction_skip_key", "instruction_skip_not_key"}
         /\ pc = cyc.fetch_pc )

\* E0A1 fetched in a cycle without a key: the unwrap ended the process.
C10_Witness ==
    /\ cyc.stage = "execute"
    /\ ~cyc.keycode.some
    /\ cyc.instruction = Word(14, 0, 10, 1)
    /\ cyc.invoked = ""
    /\ status = "panicked"
    /\ fault = "unwrap_none_keycode"

\* The last cycle got as far as its fetch, with pc as the cycle found it.
FetchTried == cyc.stage \in {"fetch", "execute"}

\* The sprite rows i < n of the Dxyn the last cycle executed whose byte
\* memory[I + i] lies outside the memory, I as it was before the instruction.
RowsOutside ==
    { i \in 0..(N(cyc.instruction) - 1) : cyc.pre.index_register + i >= CHIP8_MEMORY }

\* C11: a fetch with pc or pc + 1 at 4096 or more, a Dxyn with I + i at 4096
\* or more for some sprite row i < n, and Ex9E or ExA1 executed without a key
\* code each end the process in a panic: no instruction word is read by such
\* a fetch and pc does not move, and no cycle leaves the process running
\* after one of them.
C11_ReadsInsideMemory ==
    /\ (FetchTried /\ cyc.pre.pc + 1 >= CHIP8_MEMORY) =>
          /\ status = "panicked"
          /\ fault = "fetch_out_of_bounds"
          /\ cyc.stage = "fetch"
          /\ cyc.instruction = -1
          /\ pc = cyc.pre.pc
    /\ (FetchTried /\ cyc.pre.pc + 1 < CHIP8_MEMORY) =>
          /\ cyc.stage = "execute"
          /\ cyc.instruction = ram[cyc.pre.pc] * 256 + ram[cyc.pre.pc + 1]
    /\ (Executed /\ nibbles(cyc.instruction)[1] = 13 /\ RowsOutside # {}) =>
          /\ status = "panicked"
          /\ fault = "draw_out_of_bounds"
    /\ (Executed /\ KeySkipWord(cyc.instruction) /\ ~cyc.keycode.some) =>
          /\ status = "panicked"
          /\ fault = "unwrap_none_keycode"

\* AFFE D113: two sprite rows read at 0xFFE and 0xFFF, the third is outside.
C11_Witness ==
    /\ status = "panicked"
    /\ fault = "draw_out_of_bounds"
    /\ Executed
    /\ cyc.instruction = Word(13, 1, 1, 3)
    /\ cyc.pre.index_register = CHIP8_MEMORY - 2
    /\ RowsOutside = {2}

\* C12: a cycle whose pending events held a quit event or an escape key-down
\* ends the process at the input sampling, with no fetch and no instruction
\* executed, whatever events follow it in the batch.
C12_QuitEndsTheCycle ==
    cyc.quit_pending => (status = "exited" /\ cyc.stage = "input")

ShiftDone ==
    /\ Executed
    /\ cyc.invoked \in {"instruction_alu_shift_right", "instruction_alu_shift_left"}

\* C13: with Vy = v before the instruction, after 8xy6 Vx = v >> 1 and VF is
\* bit 0 of v, and after 8xyE Vx = (v << 1) mod 256 and VF is bit 7 of v, as
\* the value 0 or 1; stated here for x other than 0xF, where Vx and VF are
\* two registers.
C13_ShiftAsStated ==
    (ShiftDone /\ X(cyc.instruction) # CHIP8_VF_INDEX) =>
        IF cyc.invoked = "instruction_alu_shift_right"
        THEN /\ var_registers[X(cyc.instruction)] = PreVy \div 2
             /\ VF = PreVy % 2
        ELSE /\ var_registers[X(cyc.instruction)] = (PreVy * 2) % 256
             /\ VF = PreVy \div 128

\* This step is a cycle that executes Dxyn without panicking.
DrawStep ==
    /\ status = "running"
    /\ status' = "running"
    /\ cyc'.stage = "execute"
    /\ cyc'.invoked = "instruction_draw_display"

\* Bit (7 - k) of sprite row i, read at the index register of this state.
SpriteBit(i, k) == (ram[index_register + i] \div Pow2(7 - k)) % 2

\* C14: a Dxyn that does not panic, with row = Vy, col = Vx and I read before
\* it: for every sprite row i < n and k in 0..7 the pixel at
\* ((row + i) mod 32, (col + k) mod 64) is its old value XOR bit (7 - k) of
\* memory[I + i]; every other pixel is unchanged; VF is 1 if some addressed
\* pixel was 1 with its sprite bit 1 and 0 otherwise, whatever VF was before.
C14_DrawPixels ==
    [][ DrawStep =>
        LET w   == cyc'.instruction
            row == var_registers[Y(w)]
            col == var_registers[X(w)]
            n   == N(w)
        IN  /\ \A i \in 0..(n - 1), k \in 0..7 :
                   display'[(row + i) % 32][(col + k) % 64]
                     = (display[(row + i) % 32][(col + k) % 64] + SpriteBit(i, k)) % 2
            /\ \A r \in 0..(CHIP8_DISPLAY_HEIGHT - 1), c \in 0..(CHIP8_DISPLAY_WIDTH - 1) :
                   ( \/ (r + 32 - (row % 32)) % 32 >= n
                     \/ (c + 64 - (col % 64)) % 64 >= 8 )
                   => display'[r][c] = display[r][c]
            /\ VF' = IF \E i \in 0..(n - 1), k \in 0..7 :
                           /\ display[(row + i) % 32][(col + k) % 64] = 1
                           /\ SpriteBit(i, k) = 1
                     THEN 1 ELSE 0 ]_vars

\* 6F3D 6F1E A000 DFF5 on a clear framebuffer: VF = 30 gives row and column,
\* the glyph wraps from row 31 to row 0, and VF ends at 0.
C14_Witness ==
    /\ status = "running"
    /\ Executed
    /\ cyc.invoked = "instruction_draw_display"
    /\ cyc.instruction = Word(13, 15, 15, 5)
    /\ cyc.pre.var_registers[CHIP8_VF_INDEX] = 30
    /\ cyc.pre.blank
    /\ display[30][30] = 1 /\ display[31][33] = 1 /\ display[0][30] = 1
    /\ display[31][31] = 0 /\ display[30][38] = 0
    /\ VF = 0

\* C15: for x # y, both other than 0xF, 8xy5 leaves (Vx - Vy) mod 256 in Vx
\* and 8xy7 leaves (Vy - Vx) mod 256 in Vx, and both leave Vy as it was.
C15_ReverseSubtractAsStated ==
    ( /\ SubtractDone
      /\ X(cyc.instruction) # Y(cyc.instruction)
      /\ X(cyc.instruction) # CHIP8_VF_INDEX
      /\ Y(cyc.instruction) # CHIP8_VF_INDEX )
    => /\ var_registers[Y(cyc.instruction)] = PreVy
       /\ var_registers[X(cyc.instruction)] =
              IF N(cyc.instruction) = 5
              THEN (PreVx - PreVy + 256) % 256
              ELSE (PreVy - PreVx + 256) % 256

\* This step is a cycle that executes 8xy0, 8xy1, 8xy2 or 8xy3 with x # 0xF.
BitwiseStep ==
    /\ status = "running"
    /\ cyc'.stage = "execute"
    /\ nibbles(cyc'.instruction)[1] = 8
    /\ N(cyc'.instruction) \in 0..3
    /\ X(cyc'.instruction) # CHIP8_VF_INDEX

\* C16: 8xy0, 8xy1, 8xy2 and 8xy3 with x # 0xF leave in Vx the value of Vy,
\* Vx OR Vy, Vx AND Vy, Vx XOR Vy of the old registers, and leave VF, every
\* other register, the index register, the stack and its pointer, the
\* framebuffer and the memory unchanged.
C16_BitwiseWritesOnlyVx ==
    [][ BitwiseStep =>
        LET w == cyc'.instruction
            a == var_registers[X(w)]
            b == var_registers[Y(w)]
        IN  /\ status' = "running"
            /\ var_registers'[X(w)] =
                   CASE N(w) = 0 -> b
                     [] N(w) = 1 -> BitOr(a, b)
                     [] N(w) = 2 -> BitAnd(a, b)
                     [] N(w) = 3 -> BitXor(a, b)
            /\ \A r \in 0..15 : r # X(w) => var_registers'[r] = var_registers[r]
            /\ index_register' = index_register
            /\ stack' = stack
            /\ sp' = sp
            /\ display' = display
            /\ ram' = ram ]_vars

\* 8013 with V0 = 0x5A, V1 = 0x3C and VF = 1, after a draw and inside a call.
C16_Witness ==
    /\ status = "running"
    /\ Executed
    /\ cyc.instruction = Word(8, 0, 1, 3)
    /\ cyc.invoked = "instruction_alu_xor"
    /\ PreVx = 90 /\ PreVy = 60
    /\ var_registers[0] = 102 /\ var_registers[1] = 60
    /\ VF = 1
    /\ sp = 1 /\ index_register = 2 /\ display # BlankDisplay

AddImmediateDone == Executed /\ cyc.invoked = "instruction_add"

\* C17: after 7xnn with Vx = a before it, Vx = (a + nn) mod 256, and for
\* x # 0xF VF is what it was, also when a + nn >= 256.
C17_AddImmediate ==
    AddImmediateDone =>
        /\ status = "running"
        /\ var_registers[X(cyc.instruction)] = (PreVx + (cyc.instruction % 256)) % 256
        /\ X(cyc.instruction) # CHIP8_VF_INDEX
               => VF = cyc.pre.var_registers[CHIP8_VF_INDEX]

\* 71FF with V1 = 128 and VF = 0: the sum wraps to 127 and VF stays 0.
C17_Witness ==
    /\ AddImmediateDone
    /\ cyc.instruction = 7 * 4096 + 256 + 255
    /\ PreVx = 128
    /\ var_registers[1] = 127
    /\ cyc.pre.var_registers[CHIP8_VF_INDEX] = 0
    /\ VF = 0

PixelsBinary ==
    \A r \in 0..(CHIP8_DISPLAY_HEIGHT - 1), c \in 0..(CHIP8_DISPLAY_WIDTH - 1) :
        display[r][c] \in {0, 1}

\* C18: every pixel is 0 or 1 in every reachable state, and a step that
\* changes the framebuffer is a cycle executing 00E0 or Dxyn: every other
\* instruction word, the unsupported ones included, and the load leave all
\* 32 x 64 pixels as they were.
C18_FramebufferFrame ==
    /\ []PixelsBinary
    /\ [][ display' # display =>
             /\ cyc'.stage = "execute"
             /\ \/ cyc'.instruction = CLS
                \/ nibbles(cyc'.instruction)[1] = 13 ]_vars

\* The last instruction of the tour before its 00E0: every kind of
\* instruction has run and the glyph drawn at (5, 5) is still there.
C18_Witness ==
    /\ status = "running"
    /\ Executed
    /\ cyc.instruction = 11 * 4096 + Addr(31)
    /\ cyc.pre.instruction = Word(15, 1, 3, 3)
    /\ pc = Addr(31)
    /\ display[5][5] = 1 /\ display[6][6] = 0 /\ display[9][8] = 1
    /\ PixelsBinary

\* C19: a cycle that executes Dxyn without panicking hands the display one
\* snapshot, equal to the framebuffer as the instruction leaves it; no other
\* step hands it any: the snapshot it was handed last stays as it was, also
\* after 00E0 and after a Dxyn that panics reading its sprite.
C19_OneSnapshotPerDraw ==
    [][ IF DrawStep
        THEN /\ display_driver'.draws = 1
             /\ display_driver'.shown
             /\ display_driver'.last = display'
        ELSE /\ display_driver'.draws = 0
             /\ display_driver'.shown = display_driver.shown
             /\ display_driver'.last = display_driver.last ]_vars

\* After the first 00E0 at the end of the tour: the framebuffer is clear and
\* the display still holds the glyph handed to it by the D115 before.
C19_Witness ==
    /\ status = "running"
    /\ Executed
    /\ cyc.instruction = CLS
    /\ cyc.invoked = "instruction_clear_screen"
    /\ ~cyc.pre.blank
    /\ display = BlankDisplay
    /\ display_driver.shown
    /\ display_driver.draws = 0
    /\ display_driver.last # display
    /\ display_driver.last[5][5] = 1

\* The memory right after a load that fits: the font at 0x000, zeros up to
\* 0x1FF, the image at 0x200 and zeros after it.
LoadedByte(a) ==
    IF a < Len(FONT_SET) THEN FONT_SET[a + 1]
    ELSE IF a >= CHIP8_PROGRAM_MEMORY_START
            /\ a < CHIP8_PROGRAM_MEMORY_START + Len(prog_data)
    THEN prog_data[a - CHIP8_PROGRAM_MEMORY_START + 1]
    ELSE 0

\* C20: once load_program has returned, the memory is what the load left,
\* the font bytes included, and no step of the run loop changes it, whatever
\* instruction it executes and however the process ends; both timers are 0
\* in every state.
C20_MemoryAndTimersFixed ==
    /\ [](JustLoaded => \A a \in 0..(CHIP8_MEMORY - 1) : ram[a] = LoadedByte(a))
    /\ [](delay_timer = 0 /\ sound_timer = 0)
    /\ [][status # "new" => ram' = ram]_vars

\* The tour has run to its halt: every kind of instruction has executed.
C20_Witness ==
    /\ status = "running"
    /\ Executed
    /\ cyc.instruction = Halt(34)
    /\ cyc.pre.instruction = CLS
    /\ prog_data = Asm(TourProgram)
    /\ ram[0] = 240 /\ ram[CHIP8_PROGRAM_MEMORY_START] = 97
    /\ ram[CHIP8_PROGRAM_MEMORY_START + 1] = 5 /\ ram[CHIP8_MEMORY - 1] = 0
    /\ delay_timer = 0 /\ sound_timer = 0

====
